---- MODULE Spec2Model ----
(***************************************************************************)
(* A model of codeface-extraction's mbox parsing (mbox_parsing.py): the    *)
(* run loop over the configured mailing lists, parse, the index            *)
(* get-or-build, the artifact extraction from commits.list, the parallel   *)
(* text search and the CSV output.                                         *)
(*                                                                         *)
(* Text (paths, names, tokens) is a sequence of chunks; the chunk "/" is   *)
(* the path separator.  A message body is a sequence of tokens, as the     *)
(* analyzer of the schema splits it (whitespace, commas, colons, quotes).  *)
(***************************************************************************)
EXTENDS Integers, Sequences, FiniteSets, TLC

VARIABLES
    args,           \* run: the parsed command line (filepath, file, reindex)
    maildir,        \* run: __maildir
    mailinglists,   \* run: __conf["mailinglists"], a sequence of list names
    num_cores,      \* multiprocessing.cpu_count() of the machine
    mlIdx,          \* run: position of the for loop in mailinglists
    pc,             \* position of the single thread of control
    err,            \* the exception that ended the run ("none" while running)
    mboxFS,         \* file system: the paths of the mbox files that exist
    indexFS,        \* file system: the index directories under mbox-index
    commitsFile,    \* file system: commits.list in the results folder
    outFile,        \* file system: the output table
    mbox_file,      \* parse: mbox_name
    append_result,  \* parse: append_result
    mbox,           \* parse: the loaded messages
    ix,             \* parse: the opened index (its path)
    writer,         \* __get_index: the index writer ("none", "open", "committed")
    writerDocs,     \* __get_index: documents added to the writer, not committed
    buildPos,       \* __get_index: position of the loop over the messages
    rowPos,         \* __get_artifacts: position of the loop over the rows
    commit_set,     \* __get_artifacts: commit_set
    n_jobs,         \* parse: the n_jobs handed to Parallel
    pending,        \* Parallel: artifact keys not dispatched yet
    running,        \* Parallel: artifact keys whose query is executing
    order,          \* Parallel: the keys in dispatch order
    results,        \* Parallel: the result of each finished query
    outBefore,      \* history: the output table when the current parse began
    ixPre,          \* history: the index directory when __get_index was called
    written,        \* history: the match rows of each completed parse, in order
    inputMissing    \* history: an input of some parse call was missing at its start

vars == <<args, maildir, mailinglists, num_cores, mlIdx, pc, err, mboxFS, indexFS,
          commitsFile, outFile, mbox_file, append_result, mbox, ix, writer,
          writerDocs, buildPos, rowPos, commit_set, n_jobs, pending, running,
          order, results, outBefore, ixPre, written, inputMissing>>

(***************************************************************************)
(* Bounds of the model.                                                    *)
(***************************************************************************)
MaxLists == 2       \* mailing lists configured for a run
MaxCores == 3       \* logical cores of the machine
MaxRows == 3        \* rows of commits.list in the artifact-extraction runs

(***************************************************************************)
(* Text and paths.                                                         *)
(***************************************************************************)
Range(s) == {s[i] : i \in DOMAIN s}

Max(S) == CHOOSE m \in S : \A x \in S : x <= m

\* Python's None, distinct from every text.
None == <<"<None>">>

\* '%s' % x
Str(x) == IF x = None THEN <<"None">> ELSE x

\* os.path.join(a, b) for a relative b
Join(a, b) == a \o <<"/">> \o b

\* A plausible slip: cut after the first separator instead of the last.
BasenameFirstSep(p) ==
    LET seps == {i \in DOMAIN p : p[i] = "/"}
    IN  IF seps = {} THEN p ELSE SubSeq(p, (CHOOSE m \in seps : \A x \in seps : m <= x) + 1, Len(p))

\* os.path.basename(p): i = p.rfind('/') + 1; return p[i:]
Basename(p) ==
    LET seps == {i \in DOMAIN p : p[i] = "/"}
    IN  IF seps = {} THEN p ELSE SubSeq(p, Max(seps) + 1, Len(p))

results_folder == <<"res">>

\* index_path = os.path.join(results_folder, "mbox-index", os.path.basename(mbox_path))
IndexPath(mbox_path) == Join(Join(results_folder, <<"mbox-index">>), Basename(mbox_path))

\* mbox_file = os.path.join(__maildir, ml["name"] + ".mbox")
MboxFile(dir, name) == Join(dir, name \o <<".mbox">>)

(***************************************************************************)
(* Messages and body extraction.                                           *)
(***************************************************************************)
Leaf(ctype, payload) ==
    [multi |-> FALSE, ctype |-> ctype, payload |-> payload, parts |-> <<>>]

Multi(ctype, parts) ==
    [multi |-> TRUE, ctype |-> ctype, payload |-> <<>>, parts |-> parts]

Message(id, part) ==
    [id |-> id, multi |-> part.multi, ctype |-> part.ctype,
     payload |-> part.payload, parts |-> part.parts]

\* str.lower() on the chunks of a content type
LowerChunk(c) ==
    CASE c = "TEXT/" -> "text/"
      [] c = "PLAIN" -> "plain"
      [] OTHER -> c

Lower(t) == [i \in DOMAIN t |-> LowerChunk(t[i])]

\* __text_indicator in part.get_content_type().lower()
HasTextIndicator(part) == \E i \in DOMAIN part.ctype : Lower(part.ctype)[i] = "text/"

\* message.walk(): the part itself, then its subparts, depth first
RECURSIVE Walk(_)
RECURSIVE WalkAll(_)
Walk(part) == <<part>> \o (IF part.multi THEN WalkAll(part.parts) ELSE <<>>)
WalkAll(parts) == IF parts = <<>> THEN <<>> ELSE Walk(Head(parts)) \o WalkAll(Tail(parts))

\* body = None
NoBody == [none |-> TRUE, bytes |-> <<>>]

\* part.get_payload(decode=True): the bytes of a leaf, None for a multipart
Payload(part) == IF part.multi THEN NoBody ELSE [none |-> FALSE, bytes |-> part.payload]

\* The inner loop: for subpart in part.walk(): if text in type: body = payload
RECURSIVE ScanSub(_, _)
ScanSub(subs, body) ==
    IF subs = <<>> THEN body
    ELSE ScanSub(Tail(subs), IF HasTextIndicator(Head(subs)) THEN Payload(Head(subs)) ELSE body)

\* The outer loop: for part in message.walk()
RECURSIVE ScanParts(_, _)
ScanParts(ps, body) ==
    IF ps = <<>> THEN body
    ELSE LET part == Head(ps)
             b == IF part.multi THEN ScanSub(Walk(part), body)
                  ELSE IF HasTextIndicator(part) THEN Payload(part)
                  ELSE body
         IN  ScanParts(Tail(ps), b)

\* body as it stands at line 133
FoundBody(message) ==
    IF message.multi THEN ScanParts(Walk(message), NoBody)
    ELSE IF HasTextIndicator(message) THEN Payload(message)
    ELSE NoBody

\* str(bytes, errors="replace"): a malformed byte sequence becomes U+FFFD
DecodeChunk(c) == IF c = "\\xff" THEN "\\ufffd" ELSE c

DecodeReplace(bytes) == [i \in DOMAIN bytes |-> [j \in DOMAIN bytes[i] |-> DecodeChunk(bytes[i][j])]]

\* __mbox_getbody: with no textual part body is the str ' ', and
\* str(' ', errors="replace") raises TypeError (decoding str is not supported).
MboxGetBody(message) ==
    LET body == FoundBody(message)
    IN  IF body.none
        THEN [raised |-> TRUE, value |-> <<>>]
        ELSE [raised |-> FALSE, value |-> DecodeReplace(body.bytes)]

\* writer.add_document(messageID=str(message['message-id']), content=body)
Document(message) == [messageID |-> message.id, content |-> MboxGetBody(message).value]

(***************************************************************************)
(* The query of one artifact key.                                          *)
(***************************************************************************)
\* The phrase query of a text matches a document whose body holds its token.
Matches(doc, artifact, include_filepath) ==
    /\ Str(artifact[2]) \in Range(doc.content)
    /\ include_filepath => Str(artifact[1]) \in Range(doc.content)

\* __parse_execute: one (file, artifact, messageID) per matching document
RECURSIVE ParseExecute(_, _, _)
ParseExecute(artifact, docs, include_filepath) ==
    IF docs = <<>> THEN <<>>
    ELSE (IF Matches(Head(docs), artifact, include_filepath)
          THEN << <<artifact[1], artifact[2], Head(docs).messageID>> >>
          ELSE <<>>) \o ParseExecute(artifact, Tail(docs), include_filepath)

(***************************************************************************)
(* commits.list                                                            *)
(***************************************************************************)
commit_data_columns ==
    <<"commit.id", "date", "author.name", "author.email",
      "committer.date", "committer.name", "committer.email",
      "hash", "changed.files", "added.lines", "deleted.lines", "diff.size",
      "file", "artifact", "artifact.type", "artifact.diff.size">>

ColumnIndex(name) == CHOOSE i \in DOMAIN commit_data_columns : commit_data_columns[i] = name

\* csv.DictReader with fieldnames: a column the row does not have is None
RowGet(row, name) == IF ColumnIndex(name) <= Len(row) THEN row[ColumnIndex(name)] ELSE None

\* The key a row adds to commit_set (lines 104-107)
RowKey(row, files_as_artifacts) ==
    IF files_as_artifacts
    THEN <<RowGet(row, "file"), Basename(RowGet(row, "file"))>>
    ELSE <<RowGet(row, "file"), RowGet(row, "artifact")>>

\* os.path.basename(None) raises TypeError
RowRaises(row, files_as_artifacts) == files_as_artifacts /\ RowGet(row, "file") = None

(***************************************************************************)
(* The environment of the model: two mail directories, two list names,     *)
(* the messages of the archives and a few rows of commits.list.            *)
(***************************************************************************)
MailDirs == {<<"x">>, <<"y">>}

ListNames == {<<"m">>, <<"n">>}

MboxPaths == {MboxFile(d, n) : d \in MailDirs, n \in ListNames}

IndexPaths == {IndexPath(p) : p \in MboxPaths}

TextPlain == <<"text/", "plain">>

ImagePng == <<"image/", "png">>

FileP == <<"src", "/", "p.c">>

FileQ == <<"lib", "/", "sub", "/", "q.c">>

\* a plain text message that mentions p.c and src/p.c
MsgA == Message(<<"A">>, Leaf(TextPlain, << <<"see">>, FileP, <<"p.c">> >>))

\* a multipart message: unrelated text and an image
MsgB == Message(<<"B">>, Multi(<<"multipart/", "mixed">>,
                               << Leaf(TextPlain, << <<"hello">>, <<"world">> >>),
                                  Leaf(ImagePng, << <<"\\xff">> >>) >>))

\* a text message with an upper-case content type and a malformed byte
MsgC == Message(<<"C">>, Leaf(<<"TEXT/", "PLAIN">>, << <<"p.c">>, <<"\\xff">> >>))

\* a message whose only content is an image
MsgImg == Message(<<"I">>, Leaf(ImagePng, << <<"\\xff">> >>))

Missing == [exists |-> FALSE, rows |-> <<>>]

File(rows) == [exists |-> TRUE, rows |-> rows]

\* the archives on disk before the run; y/n.mbox does not exist, and holds no
\* message once it is created
InitialMbox(path) ==
    CASE path = MboxFile(<<"x">>, <<"m">>) -> File(<<MsgA, MsgB>>)
      [] path = MboxFile(<<"x">>, <<"n">>) -> File(<<MsgC>>)
      [] path = MboxFile(<<"y">>, <<"m">>) -> File(<<MsgB, MsgImg>>)
      [] OTHER -> Missing

\* a commit row with all 16 columns
MkRow(file, artifact) ==
    [i \in DOMAIN commit_data_columns |->
        IF i = ColumnIndex("file") THEN file
        ELSE IF i = ColumnIndex("artifact") THEN artifact
        ELSE <<"v">>]

Row1 == MkRow(FileP, <<"p.c">>)

Row2 == MkRow(FileQ, <<"hello">>)

Row3 == MkRow(FileP, <<"see">>)

\* rows cut short: without the file column, and without the artifact column
ShortNoFile == SubSeq(Row1, 1, ColumnIndex("file") - 1)

ShortNoArtifact == SubSeq(Row2, 1, ColumnIndex("file"))

\* the tables of commits.list the pipeline runs are checked with
PipelineTables == {Missing, File(<<Row1, Row2, Row1>>), File(<<Row1, ShortNoArtifact>>)}

\* the tables the artifact extraction alone is checked with
ExtractionRows == {Row1, Row2, Row3, ShortNoFile, ShortNoArtifact}

ExtractionTables ==
    {Missing} \cup {File(t) : t \in UNION {[1..n -> ExtractionRows] : n \in 0..MaxRows}}

Header == << <<"file">>, <<"artifact">>, <<"messageID">> >>

(***************************************************************************)
(* Index directories.                                                      *)
(***************************************************************************)
AbsentIndex == [state |-> "absent", docs |-> <<>>, src |-> None]

BareDir == [state |-> "dir", docs |-> <<>>, src |-> None]

\* an index freshly initialised by index.create_in for the archive at src
EmptyIndex(src) == [state |-> "valid", docs |-> <<>>, src |-> src]

BuildSucceeds(msgs) == \A i \in DOMAIN msgs : ~MboxGetBody(msgs[i]).raised

\* the index an earlier run built and committed from the archive at src
BuiltIndex(src) ==
    [state |-> "valid", src |-> src,
     docs |-> [i \in DOMAIN InitialMbox(src).rows |-> Document(InitialMbox(src).rows[i])]]

\* what may be at an index path before the run: nothing, a directory holding
\* no index, or the index an earlier run built from an archive of that base name
InitialIndexStates(ip) ==
    {AbsentIndex, BareDir} \cup
    {BuiltIndex(p) : p \in {q \in MboxPaths : /\ IndexPath(q) = ip
                                              /\ InitialMbox(q).exists
                                              /\ BuildSucceeds(InitialMbox(q).rows)}}

(***************************************************************************)
(* Initial state.                                                          *)
(***************************************************************************)
NoArgs == [filepath |-> FALSE, file |-> FALSE, reindex |-> FALSE]

NoResults == [k \in {} |-> <<>>]

\* the values of parse's locals before a call
LocalsIdle ==
    /\ mbox_file = <<>>
    /\ append_result = FALSE
    /\ mbox = <<>>
    /\ ix = None
    /\ writer = "none"
    /\ writerDocs = <<>>
    /\ buildPos = 1
    /\ rowPos = 1
    /\ commit_set = {}
    /\ n_jobs = 0
    /\ pending = {}
    /\ running = {}
    /\ order = <<>>
    /\ results = NoResults
    /\ ixPre = AbsentIndex

Init ==
    /\ args = NoArgs
    /\ maildir = <<>>
    /\ mailinglists = <<>>
    /\ num_cores \in 1..MaxCores
    /\ mlIdx = 0
    /\ pc = "start"
    /\ err = "none"
    /\ mboxFS = {p \in MboxPaths : InitialMbox(p).exists}
    /\ indexFS \in [IndexPaths -> UNION {InitialIndexStates(ip) : ip \in IndexPaths}]
    /\ \A ip \in IndexPaths : indexFS[ip] \in InitialIndexStates(ip)
    /\ commitsFile \in PipelineTables
    /\ outFile = Missing
    /\ LocalsIdle
    /\ outBefore = Missing
    /\ written = <<>>
    /\ inputMissing = 0

(***************************************************************************)
(* run                                                                     *)
(***************************************************************************)
runVars == <<args, maildir, mailinglists, num_cores>>

fsVars == <<mboxFS, indexFS, commitsFile, outFile>>

indexVars == <<ix, writer, writerDocs, buildPos, ixPre>>

artifactVars == <<rowPos, commit_set>>

poolVars == <<n_jobs, pending, running, order, results>>

historyVars == <<outBefore, written, inputMissing>>

ListSeqs == UNION {[1..n -> ListNames] : n \in 1..MaxLists}

\* The exception e propagates out of parse and run: the process ends.
Raise(e) == pc' = "failed" /\ err' = e

\* lines 236-254: the arguments and the configuration of this run
RunStart ==
    /\ pc = "start"
    /\ \E a \in [filepath : BOOLEAN, file : BOOLEAN, reindex : BOOLEAN],
          d \in MailDirs, ls \in ListSeqs :
            /\ args' = a
            /\ maildir' = d
            /\ mailinglists' = ls
    /\ mlIdx' = 1
    /\ pc' = "loop"
    /\ UNCHANGED <<num_cores, err, fsVars, mbox_file, append_result, mbox, indexVars,
                   artifactVars, poolVars, historyVars>>

\* the for loop is exhausted: run returns
RunDone ==
    /\ pc = "loop"
    /\ mlIdx > Len(mailinglists)
    /\ pc' = "done"
    /\ UNCHANGED <<runVars, mlIdx, err, fsVars, mbox_file, append_result, mbox,
                   indexVars, artifactVars, poolVars, historyVars>>

\* lines 257-263: the next mailing list; append for all but a list equal to the first
ParseCall ==
    /\ pc = "loop"
    /\ mlIdx <= Len(mailinglists)
    /\ mbox_file' = MboxFile(maildir, mailinglists[mlIdx])
    /\ append_result' = (mailinglists[mlIdx] # mailinglists[1])
    /\ mbox' = <<>>
    /\ ix' = None
    /\ writer' = "none"
    /\ writerDocs' = <<>>
    /\ buildPos' = 1
    /\ ixPre' = AbsentIndex
    /\ rowPos' = 1
    /\ commit_set' = {}
    /\ n_jobs' = 0
    /\ pending' = {}
    /\ running' = {}
    /\ order' = <<>>
    /\ results' = NoResults
    /\ outBefore' = outFile
    /\ pc' = "load_mbox"
    /\ UNCHANGED <<runVars, mlIdx, err, fsVars, written, inputMissing>>

(***************************************************************************)
(* parse                                                                   *)
(***************************************************************************)
\* line 189: mailbox.mbox(mbox_name) opens the file, and creates it empty when
\* it does not exist (create=True is the default)
LoadMbox ==
    /\ pc = "load_mbox"
    /\ mboxFS' = mboxFS \cup {mbox_file}
    /\ mbox' = InitialMbox(mbox_file).rows
    /\ inputMissing' = IF inputMissing = 0 /\ (mbox_file \notin mboxFS \/ ~commitsFile.exists)
                       THEN mlIdx ELSE inputMissing
    /\ pc' = "get_index"
    /\ UNCHANGED <<runVars, mlIdx, err, indexFS, commitsFile, outFile, mbox_file,
                   append_result, indexVars, artifactVars, poolVars, outBefore, written>>

\* __get_index, lines 56-69 and 75-78: remove the folder when reindexing, then
\* create the index and its writer, or open the index that exists.
\* os.makedirs raises FileExistsError for a directory that holds no index.
GetIndex ==
    /\ pc = "get_index"
    /\ LET ip == IndexPath(mbox_file)
           pre == indexFS[ip]
           kept == IF pre.state # "absent" /\ args.reindex THEN AbsentIndex ELSE pre
       IN  /\ ixPre' = pre
           /\ IF kept.state = "valid"
              THEN /\ indexFS' = [indexFS EXCEPT ![ip] = kept]
                   /\ ix' = ip
                   /\ pc' = "get_artifacts"
                   /\ UNCHANGED <<err, writer>>
              ELSE IF kept.state = "dir"
              THEN /\ Raise("FileExistsError")
                   /\ UNCHANGED <<indexFS, ix, writer>>
              ELSE /\ indexFS' = [indexFS EXCEPT ![ip] = EmptyIndex(mbox_file)]
                   /\ ix' = ip
                   /\ writer' = "open"
                   /\ pc' = "build"
                   /\ UNCHANGED err
    /\ UNCHANGED <<runVars, mlIdx, mboxFS, commitsFile, outFile, mbox_file, append_result,
                   mbox, writerDocs, buildPos, artifactVars, poolVars, historyVars>>

\* lines 71-72: one document per message; __mbox_getbody may raise
AddDocument ==
    /\ pc = "build"
    /\ buildPos <= Len(mbox)
    /\ IF MboxGetBody(mbox[buildPos]).raised
       THEN /\ Raise("TypeError")
            /\ UNCHANGED <<writerDocs, buildPos>>
       ELSE /\ writerDocs' = Append(writerDocs, Document(mbox[buildPos]))
            /\ buildPos' = buildPos + 1
            /\ UNCHANGED <<pc, err>>
    /\ UNCHANGED <<runVars, mlIdx, fsVars, mbox_file, append_result, mbox, ix, writer,
                   ixPre, artifactVars, poolVars, historyVars>>

\* A plausible slip: the index is handed on without the writer's commit.
CommitSkipped ==
    /\ pc = "build"
    /\ buildPos > Len(mbox)
    /\ pc' = "get_artifacts"
    /\ UNCHANGED <<runVars, mlIdx, err, fsVars, mbox_file, append_result, mbox, indexVars,
                   artifactVars, poolVars, historyVars>>

\* line 73: writer.commit() makes the added documents the index's content
Commit ==
    /\ pc = "build"
    /\ buildPos > Len(mbox)
    /\ indexFS' = [indexFS EXCEPT ![ix].docs = writerDocs]
    /\ writer' = "committed"
    /\ writerDocs' = <<>>
    /\ pc' = "get_artifacts"
    /\ UNCHANGED <<runVars, mlIdx, err, mboxFS, commitsFile, outFile, mbox_file,
                   append_result, mbox, ix, buildPos, ixPre, artifactVars, poolVars,
                   historyVars>>

(***************************************************************************)
(* __get_artifacts                                                         *)
(***************************************************************************)
\* lines 100-102: open commits.list; a missing file raises FileNotFoundError
GetArtifactsOpen ==
    /\ pc = "get_artifacts"
    /\ IF commitsFile.exists
       THEN /\ commit_set' = {}
            /\ rowPos' = 1
            /\ pc' = "rows"
            /\ UNCHANGED err
       ELSE /\ Raise("FileNotFoundError")
            /\ UNCHANGED <<commit_set, rowPos>>
    /\ UNCHANGED <<runVars, mlIdx, fsVars, mbox_file, append_result, mbox, indexVars,
                   poolVars, historyVars>>

\* lines 103-107: one row of the table (the reader skips a row with no column)
ArtifactRow ==
    /\ pc = "rows"
    /\ rowPos <= Len(commitsFile.rows)
    /\ LET row == commitsFile.rows[rowPos]
       IN  IF Len(row) > 0 /\ RowRaises(row, args.file)
           THEN /\ Raise("TypeError")
                /\ UNCHANGED <<commit_set, rowPos>>
           ELSE /\ commit_set' = IF Len(row) = 0 THEN commit_set
                                 ELSE commit_set \cup {RowKey(row, args.file)}
                /\ rowPos' = rowPos + 1
                /\ UNCHANGED <<pc, err>>
    /\ UNCHANGED <<runVars, mlIdx, fsVars, mbox_file, append_result, mbox, indexVars,
                   poolVars, historyVars>>

\* line 109: return commit_set
ArtifactsReturn ==
    /\ pc = "rows"
    /\ rowPos > Len(commitsFile.rows)
    /\ pc' = "start_parsing"
    /\ UNCHANGED <<runVars, mlIdx, err, fsVars, mbox_file, append_result, mbox, indexVars,
                   artifactVars, poolVars, historyVars>>

(***************************************************************************)
(* The parallel text search.                                               *)
(***************************************************************************)
\* lines 203-204: n_jobs=num_cores - 1
StartParsing ==
    /\ pc = "start_parsing"
    /\ n_jobs' = num_cores - 1
    /\ pc' = "parallel"
    /\ UNCHANGED <<runVars, mlIdx, err, fsVars, mbox_file, append_result, mbox, indexVars,
                   artifactVars, pending, running, order, results, historyVars>>

\* line 204: Parallel(n_jobs=...) takes the tasks; it raises ValueError for n_jobs = 0
ParallelStart ==
    /\ pc = "parallel"
    /\ IF n_jobs = 0
       THEN /\ Raise("ValueError")
            /\ UNCHANGED pending
       ELSE /\ pending' = commit_set
            /\ pc' = "workers"
            /\ UNCHANGED err
    /\ UNCHANGED <<runVars, mlIdx, fsVars, mbox_file, append_result, mbox, indexVars,
                   artifactVars, n_jobs, running, order, results, historyVars>>

\* a free worker takes the next key, in the iteration order of the set
WorkerStart(k) ==
    /\ pc = "workers"
    /\ k \in pending
    /\ Cardinality(running) < n_jobs
    /\ pending' = pending \ {k}
    /\ running' = running \cup {k}
    /\ order' = Append(order, k)
    /\ UNCHANGED <<runVars, mlIdx, pc, err, fsVars, mbox_file, append_result, mbox,
                   indexVars, artifactVars, n_jobs, results, historyVars>>

\* __parse_execute returns its match list
WorkerReturn(k) ==
    /\ pc = "workers"
    /\ k \in running
    /\ running' = running \ {k}
    /\ results' = results @@ (k :> ParseExecute(k, indexFS[ix].docs, args.filepath))
    /\ UNCHANGED <<runVars, mlIdx, pc, err, fsVars, mbox_file, append_result, mbox,
                   indexVars, artifactVars, n_jobs, pending, order, historyVars>>

\* A plausible slip: a failed query is caught and counts as no match.
WorkerRaiseIsolated(k) ==
    /\ pc = "workers"
    /\ k \in running
    /\ running' = running \ {k}
    /\ results' = results @@ (k :> <<>>)
    /\ err' = "QueryError"
    /\ UNCHANGED <<runVars, mlIdx, pc, fsVars, mbox_file, append_result, mbox,
                   indexVars, artifactVars, n_jobs, pending, order, historyVars>>

\* __parse_execute raises: Parallel re-raises it in parse and ends its workers
WorkerRaise(k) ==
    /\ pc = "workers"
    /\ k \in running
    /\ running' = {}
    /\ Raise("QueryError")
    /\ UNCHANGED <<runVars, mlIdx, fsVars, mbox_file, append_result, mbox,
                   indexVars, artifactVars, n_jobs, pending, order, results, historyVars>>

\* every task has returned: Parallel returns the results in task order
ParallelJoin ==
    /\ pc = "workers"
    /\ pending = {}
    /\ running = {}
    /\ pc' = "write"
    /\ UNCHANGED <<runVars, mlIdx, err, fsVars, mbox_file, append_result, mbox, indexVars,
                   artifactVars, poolVars, historyVars>>

\* lines 212-214: for entry in csv_data: for row in entry: result.append(row)
RECURSIVE Flatten(_, _)
Flatten(keys, res) ==
    IF keys = <<>> THEN <<>> ELSE res[Head(keys)] \o Flatten(Tail(keys), res)

\* write_to_csv: mode "a" appends to the file (creating it), mode "w" replaces it
WriteToCsv(file, lines, append) == IF append THEN File(file.rows \o lines) ELSE File(lines)

\* lines 208-228: the header unless appending, the rows, and the write
WriteResults ==
    /\ pc = "write"
    /\ LET rows == Flatten(order, results)
           result == (IF ~append_result THEN <<Header>> ELSE <<>>) \o rows
       IN  /\ outFile' = WriteToCsv(outFile, result, append_result)
           /\ written' = written \o rows
    /\ mlIdx' = mlIdx + 1
    /\ pc' = "loop"
    /\ UNCHANGED <<runVars, err, mboxFS, indexFS, commitsFile, mbox_file, append_result,
                   mbox, indexVars, artifactVars, poolVars, outBefore, inputMissing>>

(***************************************************************************)
(* Specifications.                                                         *)
(***************************************************************************)
Next ==
    \/ RunStart
    \/ RunDone
    \/ ParseCall
    \/ LoadMbox
    \/ GetIndex
    \/ AddDocument
    \/ Commit
    \/ GetArtifactsOpen
    \/ ArtifactRow
    \/ ArtifactsReturn
    \/ StartParsing
    \/ ParallelStart
    \/ \E k \in pending : WorkerStart(k)
    \/ \E k \in running : WorkerReturn(k)
    \/ \E k \in running : WorkerRaise(k)
    \/ ParallelJoin
    \/ WriteResults

\* the whole pipeline: one run over the configured mailing lists
Spec == Init /\ [][Next]_vars

\* __get_artifacts alone, called on every table of up to MaxRows rows
InitArtifacts ==
    /\ args \in {[NoArgs EXCEPT !.file = f] : f \in BOOLEAN}
    /\ maildir = <<>>
    /\ mailinglists = <<>>
    /\ num_cores = 1
    /\ mlIdx = 0
    /\ pc = "get_artifacts"
    /\ err = "none"
    /\ mboxFS = {p \in MboxPaths : InitialMbox(p).exists}
    /\ indexFS = [ip \in IndexPaths |-> AbsentIndex]
    /\ commitsFile \in ExtractionTables
    /\ outFile = Missing
    /\ LocalsIdle
    /\ outBefore = Missing
    /\ written = <<>>
    /\ inputMissing = 0

NextArtifacts ==
    \/ GetArtifactsOpen
    \/ ArtifactRow
    \/ ArtifactsReturn

SpecArtifacts == InitArtifacts /\ [][NextArtifacts]_vars

(***************************************************************************)
(* Properties.                                                             *)
(***************************************************************************)
\* __get_index has returned its index to parse
IndexReturned == pc \in {"get_artifacts", "rows", "start_parsing", "parallel", "workers", "write"}

\* __get_index raised while it created or filled the index
IndexCallRaised ==
    \/ err = "FileExistsError"
    \/ err = "TypeError" /\ writer = "open"

\* the index at ix holds exactly one committed document per message of the archive
OneDocumentPerMessage ==
    /\ indexFS[ix].state = "valid"
    /\ Len(indexFS[ix].docs) = Len(mbox)
    /\ \A i \in DOMAIN mbox : indexFS[ix].docs[i].messageID = mbox[i].id

\* the call had to create the index: the path was removed or held no valid index
IndexWasToBeBuilt == ixPre.state # "valid" \/ args.reindex

\* C1: for every initial state of the index path (absent, a directory without a
\* valid index, a valid index) and both values of the rebuild flag, __get_index
\* returns a usable index: built with one document per message and one commit
\* when no valid index was left at the path, the existing index untouched otherwise.
C1_GetIndexAlwaysReturnsIndex ==
    /\ ~IndexCallRaised
    /\ IndexReturned =>
          IF IndexWasToBeBuilt
          THEN writer = "committed" /\ OneDocumentPerMessage
          ELSE writer = "none" /\ indexFS[ix] = ixPre

\* C2: __mbox_getbody never fails: a message with no textual part gets the
\* single-space body, so the build adds a document for it and completes.
C2_BodyExtractionNeverFails ==
    /\ ~(pc = "failed" /\ err = "TypeError" /\ writer = "open")
    /\ writer = "committed" =>
          \A i \in DOMAIN mbox :
              FoundBody(mbox[i]).none =>
                  /\ i \in DOMAIN indexFS[ix].docs
                  /\ indexFS[ix].docs[i].messageID = mbox[i].id
                  /\ indexFS[ix].docs[i].content = <<>>

\* C3: after a run over any non-empty sequence of mailing lists (entries may
\* repeat) the output file holds the header once, as its first row, followed by
\* the match rows of every list in processing order.
C3_HeaderOnceThenAllRows ==
    pc = "done" => outFile = File(<<Header>> \o written)

\* C4: the pool size handed to the parallel executor is at least 1 for every
\* number of logical cores >= 1.
C4_WorkerCountAtLeastOne ==
    pc = "parallel" => n_jobs >= 1

\* C5: when the commit table or the mbox file of a list is missing, parse fails:
\* nothing is written to the output file for that list, no later list is
\* processed and the run does not complete.
C5_MissingInputIsFatal ==
    inputMissing # 0 =>
        /\ mlIdx = inputMissing
        /\ outFile = outBefore
        /\ pc # "done"

\* a row with fewer than the 16 positional columns
HasShortRow(table) ==
    \E i \in DOMAIN table.rows :
        Len(table.rows[i]) > 0 /\ Len(table.rows[i]) < Len(commit_data_columns)

\* C6: for a commit table with a row of fewer than 16 columns, in both modes,
\* __get_artifacts fails and returns no key set, and a short row never
\* contributes a key (such as one with a missing component) to the set.
C6_ShortRowFailsExtraction ==
    (commitsFile.exists /\ HasShortRow(commitsFile)) =>
        /\ pc # "start_parsing"
        /\ \A k \in commit_set : k[1] # None /\ k[2] # None

\* C7: if the query of any artifact key fails, the failure propagates out of
\* parse, nothing is aggregated and the output file is as it was before the call.
C7_FailFastBatch ==
    err = "QueryError" => (pc = "failed" /\ outFile = outBefore)

\* C7's case: a query failed after another key's query had returned matches,
\* in a parse call that appends to the output file of an earlier list
C7_Witness ==
    /\ err = "QueryError"
    /\ \E k \in DOMAIN results : results[k] # <<>>
    /\ append_result
    /\ outFile.exists
    /\ Len(outFile.rows) > 1

\* C8: the index queried for an mbox file is the one built from that same mbox
\* file: an index entry built from the archive at one path is never the one
\* queried for the archive at another path.
C8_IndexKeyedByArchivePath ==
    pc = "workers" => indexFS[ix].src = mbox_file

\* the table is well formed: every row has the 16 columns
WellFormed(table) ==
    /\ table.exists
    /\ \A i \in DOMAIN table.rows : Len(table.rows[i]) = Len(commit_data_columns)

\* the last path segment: what is left once everything up to a separator is dropped
RECURSIVE LastSegment(_)
LastSegment(p) == IF \E i \in DOMAIN p : p[i] = "/" THEN LastSegment(Tail(p)) ELSE p

\* the distinct (file, artifact) pairs of a table
DistinctPairs(table) == {<<r[13], r[14]>> : r \in Range(table.rows)}

\* the keys a well-formed table stands for
ExpectedKeys(table, files_as_artifacts) ==
    IF files_as_artifacts
    THEN {<<pr[1], LastSegment(pr[1])>> : pr \in DistinctPairs(table)}
    ELSE DistinctPairs(table)

\* C9: for every well-formed commit table __get_artifacts returns exactly the
\* distinct keys of its rows, (file, artifact) or (file, base name of file);
\* duplicates collapse, the cardinality never exceeds the number of distinct
\* pairs, and in files-as-artifacts mode every key's artifact is the last path
\* segment of its file.
C9_ArtifactKeySet ==
    (pc = "start_parsing" /\ WellFormed(commitsFile)) =>
        /\ commit_set = ExpectedKeys(commitsFile, args.file)
        /\ Cardinality(commit_set) <= Cardinality(DistinctPairs(commitsFile))
        /\ args.file => \A k \in commit_set : k[2] = LastSegment(k[1])

\* C9's case: files-as-artifacts mode, a table with a duplicate row and a file
\* in a nested directory, and the extraction has returned
C9_Witness ==
    /\ pc = "start_parsing"
    /\ WellFormed(commitsFile)
    /\ args.file
    /\ Len(commitsFile.rows) = 3
    /\ Cardinality(commit_set) = 2
    /\ <<FileQ, <<"q.c">> >> \in commit_set

\* while a query reads the index no writer is open on it, and an index this call
\* built is committed with all its documents; no query runs while a build does
BarrierHolds ==
    /\ running # {} =>
          /\ writer # "open"
          /\ writerDocs = <<>>
          /\ indexFS[ix].state = "valid"
          /\ writer = "committed" => OneDocumentPerMessage
    /\ writer = "open" => (running = {} /\ pending = {})

\* C10: the index build (every insertion and the commit) has completed before
\* any query worker of that mbox file starts, the index is never written while a
\* worker reads it, and never are a build and a query batch active together.
C10_BuildThenQueryBarrier ==
    /\ []BarrierHolds
    /\ [][(running # {} \/ running' # {}) => indexFS' = indexFS]_vars

\* C10's case: two query workers read an index this call built and committed
C10_Witness ==
    /\ Cardinality(running) = 2
    /\ writer = "committed"
    /\ Len(indexFS[ix].docs) = 2

(***************************************************************************)
(* The build loop of __get_index alone, on an archive of one message of    *)
(* every shape: single-part, or multipart nested up to MaxNesting levels.  *)
(***************************************************************************)
MaxNesting == 2     \* levels of multipart nesting of a message
MaxParts == 2       \* parts of one multipart

\* a content type that contains "text/" without beginning with it
XTextPlain == <<"x-", "text/", "plain">>

BodyContentTypes == {TextPlain, ImagePng, XTextPlain}

BodyPayloads == { << <<"one">> >>, << <<"two">>, <<"\\xff">> >> }

BodyLeaves == {Leaf(ct, pl) : ct \in BodyContentTypes, pl \in BodyPayloads}

\* the parts nested at most d levels deep
RECURSIVE PartsUpTo(_)
PartsUpTo(d) ==
    IF d = 0 THEN BodyLeaves
    ELSE LET sub == PartsUpTo(d - 1)
         IN  BodyLeaves \cup
             {Multi(<<"multipart/", "mixed">>, ps) : ps \in UNION {[1..n -> sub] : n \in 1..MaxParts}}

BodyArchive == MboxFile(<<"x">>, <<"m">>)

\* __get_index has created the index of the archive and opened its writer
InitBody ==
    /\ args = NoArgs
    /\ maildir = <<"x">>
    /\ mailinglists = << <<"m">> >>
    /\ num_cores = 1
    /\ mlIdx = 1
    /\ pc = "build"
    /\ err = "none"
    /\ mboxFS = {p \in MboxPaths : InitialMbox(p).exists}
    /\ indexFS = [ip \in IndexPaths |->
                    IF ip = IndexPath(BodyArchive) THEN EmptyIndex(BodyArchive) ELSE AbsentIndex]
    /\ commitsFile = Missing
    /\ outFile = Missing
    /\ mbox_file = BodyArchive
    /\ append_result = FALSE
    /\ mbox \in {<<Message(<<"M">>, part)>> : part \in PartsUpTo(MaxNesting)}
    /\ ix = IndexPath(BodyArchive)
    /\ writer = "open"
    /\ writerDocs = <<>>
    /\ buildPos = 1
    /\ rowPos = 1
    /\ commit_set = {}
    /\ n_jobs = 0
    /\ pending = {}
    /\ running = {}
    /\ order = <<>>
    /\ results = NoResults
    /\ ixPre = AbsentIndex
    /\ outBefore = Missing
    /\ written = <<>>
    /\ inputMissing = 0

NextBody ==
    \/ AddDocument
    \/ Commit

SpecBody == InitBody /\ [][NextBody]_vars

\* the declared content type of the part begins with text/
BeginsWithText(part) == Len(part.ctype) > 0 /\ Lower(part.ctype)[1] = "text/"

\* the parts of the message, in traversal order, whose type begins with text/
TextParts(message) == SelectSeq(Walk(message), BeginsWithText)

\* the body the message is to get: the decoded payload of the first such part,
\* and the empty (single-space) body when there is none
FirstTextBody(message) ==
    IF TextParts(message) = <<>> THEN <<>>
    ELSE DecodeReplace(Head(TextParts(message)).payload)

\* C11: for every message, single-part or multipart with up to two levels of
\* nesting, the body indexed for it is the decoded payload of the first part in
\* traversal order whose content type begins with text/; a later textual part
\* never replaces an earlier one, and a part whose content type only contains
\* text/ is not selected.
C11_FirstTextPartIsBody ==
    \A i \in DOMAIN writerDocs : writerDocs[i].content = FirstTextBody(mbox[i])

====
